---------------------------- MODULE Spec2Model ----------------------------
(***************************************************************************)
(* A model of the BigInt class of src/bigint.hpp: a sign flag and a vector *)
(* of decimal digits, least-significant digit first, with its              *)
(* constructors, arithmetic, comparison, increment/decrement and stream    *)
(* output operators.                                                       *)
(*                                                                         *)
(* Two objects are modelled, `a` (the receiver of every operator) and `b`  *)
(* (the right operand).  A constructor action declares the object anew; a  *)
(* constructor that throws leaves no object behind.                        *)
(***************************************************************************)
EXTENDS Integers, Sequences, FiniteSets, TLC

VARIABLES
    reg,    \* reg[r]: the BigInt object r, or NoObject
    src,    \* src[r]: how object r was obtained (constructor and argument)
    op,     \* the last operation executed
    ret,    \* what the last operation returned or threw
    old,    \* the value of object a before the last operator was applied
            \* (after a constructor: the value of a itself)
    ub      \* TRUE once an operation has indexed a vector out of bounds

vars == <<reg, src, op, ret, old, ub>>

---------------------------------------------------------------------------
(* Bounds of the model *)

\* int64_t is modelled as a two's-complement integer of IntBits bits
IntBits == 5
\* longest string handed to the string constructor in SpecStr
MaxStrLen == 3
\* most digits of an operand literal in Spec
MaxOperandLen == 2
\* most digits object a may hold after an assignment in Spec
MaxDigits == 1

---------------------------------------------------------------------------
(* Characters and native integers *)

DigitChars == {"0", "1", "2", "3", "4", "5", "6", "7", "8", "9"}

\* characters the string constructor is fed in SpecStr
InputChars == {"-", "+", "a", "0", "9"}

\* digit characters of the operand literals in Spec
OperandChars == {"0", "9"}

\* std::isdigit on a 7-bit ASCII character
isdigit(c) == c \in DigitChars

\* c - '0' for a digit character
CharValue(c) ==
    CASE c = "0" -> 0 [] c = "1" -> 1 [] c = "2" -> 2 [] c = "3" -> 3
      [] c = "4" -> 4 [] c = "5" -> 5 [] c = "6" -> 6 [] c = "7" -> 7
      [] c = "8" -> 8 [] c = "9" -> 9

\* the character a stream prints for a value in 0..9
DigitChar(d) ==
    CASE d = 0 -> "0" [] d = 1 -> "1" [] d = 2 -> "2" [] d = 3 -> "3"
      [] d = 4 -> "4" [] d = 5 -> "5" [] d = 6 -> "6" [] d = 7 -> "7"
      [] d = 8 -> "8" [] d = 9 -> "9"

RECURSIVE Pow2(_)
Pow2(n) == IF n = 0 THEN 1 ELSE 2 * Pow2(n - 1)

MinInt == -Pow2(IntBits - 1)
MaxInt == Pow2(IntBits - 1) - 1
Int64 == MinInt..MaxInt

\* C++ integer division and remainder truncate toward zero
TruncDiv(x, y) == IF x >= 0 THEN x \div y ELSE -((-x) \div y)
TruncMod(x, y) == x - y * TruncDiv(x, y)

\* std::abs(int64_t).  The magnitude of the minimum value is not
\* representable and the call is undefined there.  The outcomes: the negation
\* wraps to the minimum value, which the digit loop reads as signed
\* (MinInt) or, the compiler having concluded that it cannot be negative, as
\* unsigned (-MinInt); or the overflow traps (under -ftrapv).
AbsValue(v) == [trap |-> FALSE, value |-> v]
AbsTrap     == [trap |-> TRUE, value |-> 0]
AbsOutcomes(n) == IF n = MinInt THEN {AbsValue(MinInt), AbsValue(-MinInt), AbsTrap}
                  ELSE {AbsValue(IF n < 0 THEN -n ELSE n)}

\* the characters operator<<(ostream&, int64_t) prints for a non-negative n
RECURSIVE NatChars(_)
NatChars(n) == IF n < 10 THEN <<DigitChar(n)>>
               ELSE NatChars(n \div 10) \o <<DigitChar(n % 10)>>

\* the characters operator<<(ostream&, int64_t) prints
IntChars(n) == IF n < 0 THEN <<"-">> \o NatChars(-n) ELSE NatChars(n)

---------------------------------------------------------------------------
(* The BigInt value: fields number and isNegative *)

BigInt(num, neg) == [number |-> num, isNegative |-> neg]

NoObject == [none |-> TRUE]

RECURSIVE StripZeros(_)
StripZeros(num) ==
    IF Len(num) > 1 /\ num[Len(num)] = 0
    THEN StripZeros(SubSeq(num, 1, Len(num) - 1))
    ELSE num

removeLeadingZero(x) ==
    LET num == StripZeros(x.number)
    IN  BigInt(num, IF Len(num) = 1 /\ num[1] = 0 THEN FALSE ELSE x.isNegative)

\* BigInt()
BigIntDefault == BigInt(<<0>>, FALSE)

\* the do-while of BigInt(int64_t): push integer % 10, integer = integer / 10
RECURSIVE IntDigits(_)
IntDigits(integer) ==
    <<TruncMod(integer, 10)>> \o
        (IF TruncDiv(integer, 10) # 0 THEN IntDigits(TruncDiv(integer, 10)) ELSE <<>>)

\* BigInt(int64_t integer), given the value std::abs returned
BigIntFromInt(integer, absolute) ==
    LET num == IntDigits(absolute)
    IN  BigInt(IF num = <<>> THEN <<0>> ELSE num, integer < 0)

\* the for loop of BigInt(const std::string&): i runs from str.size() down to
\* first + 1; a non-digit throws, a digit is pushed
RECURSIVE ParseDigits(_, _, _, _)
ParseDigits(str, i, first, num) ==
    IF i > first
    THEN IF ~isdigit(str[i])
         THEN [thrown |-> TRUE]
         ELSE ParseDigits(str, i - 1, first, Append(num, CharValue(str[i])))
    ELSE [thrown |-> FALSE, number |-> num]

\* the string constructor without the check for a sign with no digits
BigIntFromString_BareSign(str) ==
    IF str = <<>>
    THEN [thrown |-> TRUE]
    ELSE LET neg   == (str[1] = "-")
             first == IF neg THEN 1 ELSE 0
             p     == ParseDigits(str, Len(str), first, <<>>)
         IN  IF p.thrown
             THEN [thrown |-> TRUE]
             ELSE LET x == removeLeadingZero(BigInt(p.number, neg))
                  IN  [thrown |-> FALSE,
                       value  |-> BigInt(x.number,
                                         IF x.number = <<>> THEN FALSE
                                         ELSE x.isNegative)]

\* BigInt(const std::string& str): [thrown |-> TRUE], or the value built
BigIntFromString(str) ==
    IF str = <<>>
    THEN [thrown |-> TRUE]
    ELSE LET neg   == (str[1] = "-")
             first == IF neg THEN 1 ELSE 0
         IN  IF Len(str) = first
             THEN [thrown |-> TRUE]
             ELSE LET p == ParseDigits(str, Len(str), first, <<>>)
                  IN  IF p.thrown
                      THEN [thrown |-> TRUE]
                      ELSE LET x == removeLeadingZero(BigInt(p.number, neg))
                           IN  [thrown |-> FALSE,
                                value  |-> BigInt(x.number,
                                                  IF x.number = <<>> THEN FALSE
                                                  ELSE x.isNegative)]

---------------------------------------------------------------------------
(* Private magnitude helpers *)

Max(x, y) == IF x >= y THEN x ELSE y

RECURSIVE AddLoop(_, _, _, _, _)
AddLoop(an, bn, i, carry, num) ==
    IF i <= Max(Len(an), Len(bn)) \/ carry # 0
    THEN LET sum == carry + (IF i <= Len(an) THEN an[i] ELSE 0)
                          + (IF i <= Len(bn) THEN bn[i] ELSE 0)
         IN  AddLoop(an, bn, i + 1, TruncDiv(sum, 10),
                     Append(num, TruncMod(sum, 10)))
    ELSE num

\* absoluteAdd: the sign of the returned object is that of BigInt(), false
absoluteAdd(x, y) == BigInt(AddLoop(x.number, y.number, 1, 0, <<>>), FALSE)

RECURSIVE SubLoop(_, _, _, _, _)
SubLoop(an, bn, i, borrow, num) ==
    IF i <= Len(an)
    THEN LET temp == IF i <= Len(bn) THEN bn[i] ELSE 0
             diff == an[i] - temp - borrow
         IN  IF diff < 0
             THEN SubLoop(an, bn, i + 1, 1, Append(num, diff + 10))
             ELSE SubLoop(an, bn, i + 1, 0, Append(num, diff))
    ELSE num

absoluteSubtract(x, y) ==
    removeLeadingZero(BigInt(SubLoop(x.number, y.number, 1, 0, <<>>), FALSE))

RECURSIVE CmpLoop(_, _, _)
CmpLoop(an, bn, i) ==
    IF i >= 1
    THEN IF an[i] # bn[i]
         THEN (IF an[i] > bn[i] THEN 1 ELSE -1)
         ELSE CmpLoop(an, bn, i - 1)
    ELSE 0

absoluteComparison(x, y) ==
    IF Len(x.number) # Len(y.number)
    THEN (IF Len(x.number) > Len(y.number) THEN 1 ELSE -1)
    ELSE CmpLoop(x.number, y.number, Len(x.number))

---------------------------------------------------------------------------
(* Public operators, as functions of the receiver x and the operand y *)

\* BigInt operator+(const BigInt& other) const
operatorPlus(x, y) ==
    IF x.isNegative = y.isNegative
    THEN BigInt(absoluteAdd(x, y).number, x.isNegative)
    ELSE IF absoluteComparison(x, y) >= 0
         THEN BigInt(absoluteSubtract(x, y).number, x.isNegative)
         ELSE BigInt(absoluteSubtract(y, x).number, y.isNegative)

\* BigInt operator-() const
operatorNegate(x) ==
    IF x.number[1] = 0 /\ Len(x.number) = 1
    THEN BigInt(x.number, FALSE)
    ELSE BigInt(x.number, ~x.isNegative)

\* BigInt operator-(const BigInt& other) const
operatorMinus(x, y) == operatorPlus(x, operatorNegate(y))

\* the inner loop of operator*: row i of the schoolbook product, from column
\* j with the given carry; positions are 1-based, so answer.number[i + j] of
\* the source is ans[i + j - 1].  oob: the index is past the end of ans.
RECURSIVE MulInner(_, _, _, _, _, _)
MulInner(an, bn, i, j, carry, ans) ==
    IF j <= Len(bn) \/ carry # 0
    THEN IF i + j - 1 > Len(ans)
         THEN [oob |-> TRUE, number |-> ans]
         ELSE LET multiplier == IF j <= Len(bn) THEN bn[j] ELSE 0
                  product    == an[i] * multiplier
                  current    == ans[i + j - 1] + product + carry
              IN  MulInner(an, bn, i, j + 1, TruncDiv(current, 10),
                           [ans EXCEPT ![i + j - 1] = TruncMod(current, 10)])
    ELSE [oob |-> FALSE, number |-> ans]

\* the outer loop of operator*
RECURSIVE MulOuter(_, _, _, _)
MulOuter(an, bn, i, ans) ==
    IF i <= Len(an)
    THEN LET row == MulInner(an, bn, i, 1, 0, ans)
         IN  IF row.oob THEN row ELSE MulOuter(an, bn, i + 1, row.number)
    ELSE [oob |-> FALSE, number |-> ans]

\* operator* with a digit buffer one element short
operatorTimes_ShortBuffer(x, y) ==
    LET buffer == [k \in 1..(Len(x.number) + Len(y.number) - 1) |-> 0]
        loops  == MulOuter(x.number, y.number, 1, buffer)
    IN  [oob   |-> loops.oob,
         value |-> removeLeadingZero(
                       BigInt(loops.number, x.isNegative # y.isNegative))]

\* BigInt operator*(const BigInt& other) const: the value returned, and
\* whether the digit buffer was indexed past its end on the way
operatorTimes(x, y) ==
    LET buffer == [k \in 1..(Len(x.number) + Len(y.number)) |-> 0]
        loops  == MulOuter(x.number, y.number, 1, buffer)
    IN  [oob   |-> loops.oob,
         value |-> removeLeadingZero(
                       BigInt(loops.number, x.isNegative # y.isNegative))]

\* bool operator==(const BigInt& other) const
operatorEq(x, y) ==
    LET sameSign   == (x.isNegative = y.isNegative)
        sameNumber == (x.number = y.number)
    IN  sameNumber /\ sameSign

\* bool operator!=(const BigInt& other) const
operatorNe(x, y) ==
    LET sameSign   == (x.isNegative = y.isNegative)
        sameNumber == (x.number = y.number)
    IN  ~(sameNumber /\ sameSign)

\* operator< that takes two negatives of equal magnitude for ordered
operatorLt_NegativeTie(x, y) ==
    IF x.isNegative # y.isNegative
    THEN x.isNegative
    ELSE IF x.isNegative
         THEN absoluteComparison(x, y) >= 0
         ELSE absoluteComparison(x, y) < 0

\* bool operator<(const BigInt& other) const
operatorLt(x, y) ==
    IF x.isNegative # y.isNegative
    THEN x.isNegative
    ELSE IF x.isNegative
         THEN absoluteComparison(x, y) > 0
         ELSE absoluteComparison(x, y) < 0

\* bool operator>(const BigInt& other) const
operatorGt(x, y) == operatorLt(y, x)

\* bool operator<=(const BigInt& other) const
operatorLe(x, y) == ~operatorLt(y, x)

\* bool operator>=(const BigInt& other) const
operatorGe(x, y) == ~operatorLt(x, y)

\* the for loop of operator<<: digits from the last to the first
RECURSIVE OutLoop(_, _)
OutLoop(num, i) ==
    IF i >= 1 THEN IntChars(num[i]) \o OutLoop(num, i - 1) ELSE <<>>

\* the for loop of operator<< running from the first digit to the last
RECURSIVE OutLoopForward(_, _)
OutLoopForward(num, i) ==
    IF i <= Len(num) THEN IntChars(num[i]) \o OutLoopForward(num, i + 1) ELSE <<>>

\* operator<< that writes the digits in storage order
operatorOut_StorageOrder(x) ==
    (IF x.isNegative THEN <<"-">> ELSE <<>>) \o OutLoopForward(x.number, 1)

\* std::ostream& operator<<(std::ostream&, const BigInt&): the characters
\* written to the stream
operatorOut(x) ==
    (IF x.isNegative THEN <<"-">> ELSE <<>>) \o OutLoop(x.number, Len(x.number))

\* the implicit conversion BigInt(1) in operator++ and operator--
One == BigIntFromInt(1, 1)

\* BigInt& operator++(): the new value of *this
operatorPreInc(x) == operatorPlus(x, One)

\* BigInt& operator--(): the new value of *this
operatorPreDec(x) == operatorMinus(x, One)

\* BigInt operator++(int): the new value of *this and the value returned
operatorPostInc(x) ==
    LET temp == x
    IN  [self |-> operatorPreInc(x), result |-> temp]

\* BigInt operator--(int): the new value of *this and the value returned
operatorPostDec(x) ==
    LET temp == x
    IN  [self |-> operatorPreDec(x), result |-> temp]

---------------------------------------------------------------------------
(* State *)

Objects == {"a", "b"}

Returned(v) == [kind |-> "value", val |-> v]
Thrown      == [kind |-> "throw", val |-> "std::invalid_argument"]
Trapped     == [kind |-> "trap"]
NoReturn    == [kind |-> "none"]

ByDefault     == [kind |-> "default"]
ByString(str) == [kind |-> "string", arg |-> str]
ByInt(n)      == [kind |-> "int", arg |-> n]
Computed      == [kind |-> "computed"]

Exists(r) == reg[r] # NoObject

\* every string of at most n characters of the set chars
StringsUpTo(chars, n) == UNION {[1..k -> chars] : k \in 0..n}

\* strings handed to the string constructor in SpecStr
CtorStrings == StringsUpTo(InputChars, MaxStrLen)

\* the decimal literal of a native integer
Literal(n) == IntChars(n)

\* operand literals of Spec: an optional '-' and 1..MaxOperandLen digits
Operands ==
    LET ds == StringsUpTo(OperandChars, MaxOperandLen) \ {<<>>}
    IN  ds \cup {<<"-">> \o d : d \in ds}

\* how the operands of Spec are declared: BigInt x; or BigInt x("...");
OperandSources == {ByDefault} \cup {ByString(str) : str \in Operands}

Declared(source) ==
    IF source.kind = "default" THEN BigIntDefault
    ELSE BigIntFromString(source.arg).value

\* BigInt a, b;
Init ==
    /\ reg = [r \in Objects |-> BigIntDefault]
    /\ src = [r \in Objects |-> ByDefault]
    /\ op  = "BigInt()"
    /\ ret = NoReturn
    /\ old = BigIntDefault
    /\ ub  = FALSE

\* BigInt a(...), b(...); with an operand literal each, or none
InitOperands ==
    /\ \E sa \in OperandSources, sb \in OperandSources :
          /\ src = [r \in Objects |-> IF r = "a" THEN sa ELSE sb]
          /\ reg = [r \in Objects |-> Declared(IF r = "a" THEN sa ELSE sb)]
    /\ op  = "BigInt a, b"
    /\ ret = NoReturn
    /\ old = reg["a"]
    /\ ub  = FALSE

---------------------------------------------------------------------------
(* Constructors: object r is declared anew *)

Default(r) ==
    /\ ~ub
    /\ reg' = [reg EXCEPT ![r] = BigIntDefault]
    /\ src' = [src EXCEPT ![r] = ByDefault]
    /\ op'  = "BigInt()"
    /\ ret' = NoReturn
    /\ old' = reg'["a"]
    /\ ub'  = ub

FromInt(r, integer) ==
    /\ ~ub
    /\ \E absolute \in AbsOutcomes(integer) :
          IF absolute.trap
          THEN /\ reg' = [reg EXCEPT ![r] = NoObject]
               /\ ret' = Trapped
          ELSE /\ reg' = [reg EXCEPT ![r] = BigIntFromInt(integer, absolute.value)]
               /\ ret' = NoReturn
    /\ src' = [src EXCEPT ![r] = ByInt(integer)]
    /\ op'  = "BigInt(int64_t)"
    /\ old' = reg'["a"]
    /\ ub'  = ub

FromString(r, str) ==
    /\ ~ub
    /\ LET built == BigIntFromString(str)
       IN  IF built.thrown
           THEN /\ reg' = [reg EXCEPT ![r] = NoObject]
                /\ ret' = Thrown
           ELSE /\ reg' = [reg EXCEPT ![r] = built.value]
                /\ ret' = NoReturn
    /\ src' = [src EXCEPT ![r] = ByString(str)]
    /\ op'  = "BigInt(string)"
    /\ old' = reg'["a"]
    /\ ub'  = ub

---------------------------------------------------------------------------
(* Operators that leave both objects as they are: a is *this, b is other *)

\* the common shape: operation name and returned value
Pure(name, value) ==
    /\ ~ub
    /\ Exists("a") /\ Exists("b")
    /\ op'  = name
    /\ ret' = Returned(value)
    /\ old' = reg["a"]
    /\ UNCHANGED <<reg, src, ub>>

Plus      == Pure("a + b", operatorPlus(reg["a"], reg["b"]))
Minus     == Pure("a - b", operatorMinus(reg["a"], reg["b"]))
Negate    == Pure("-a", operatorNegate(reg["a"]))
Equal     == Pure("a == b", operatorEq(reg["a"], reg["b"]))
NotEqual  == Pure("a != b", operatorNe(reg["a"], reg["b"]))
Less      == Pure("a < b", operatorLt(reg["a"], reg["b"]))
Greater   == Pure("a > b", operatorGt(reg["a"], reg["b"]))
LessEq    == Pure("a <= b", operatorLe(reg["a"], reg["b"]))
GreaterEq == Pure("a >= b", operatorGe(reg["a"], reg["b"]))

\* a + (-a)
PlusNegated ==
    Pure("a + (-a)", operatorPlus(reg["a"], operatorNegate(reg["a"])))

Times ==
    /\ ~ub
    /\ Exists("a") /\ Exists("b")
    /\ LET product == operatorTimes(reg["a"], reg["b"])
       IN  IF product.oob
           THEN /\ ub' = TRUE
                /\ ret' = NoReturn
           ELSE /\ ub' = ub
                /\ ret' = Returned(product.value)
    /\ op'  = "a * b"
    /\ old' = reg["a"]
    /\ UNCHANGED <<reg, src>>

Output(r) ==
    /\ ~ub
    /\ Exists(r)
    /\ op'  = "out << " \o r
    /\ ret' = Returned(operatorOut(reg[r]))
    /\ old' = reg["a"]
    /\ UNCHANGED <<reg, src, ub>>

---------------------------------------------------------------------------
(* Operators that assign to *this, which is object a *)

\* the common shape: operation name, new value of a, returned value
Mutate(name, self, result) ==
    /\ ~ub
    /\ Exists("a") /\ Exists("b")
    /\ Len(self.number) <= MaxDigits
    /\ reg' = [reg EXCEPT !["a"] = self]
    /\ src' = [src EXCEPT !["a"] = Computed]
    /\ op'  = name
    /\ ret' = Returned(result)
    /\ old' = reg["a"]
    /\ ub'  = ub

PlusAssign ==
    LET self == operatorPlus(reg["a"], reg["b"])
    IN  Mutate("a += b", self, self)

MinusAssign ==
    LET self == operatorMinus(reg["a"], reg["b"])
    IN  Mutate("a -= b", self, self)

TimesAssign ==
    /\ ~ub
    /\ Exists("a") /\ Exists("b")
    /\ LET product == operatorTimes(reg["a"], reg["b"])
       IN  IF product.oob
           THEN /\ ub' = TRUE
                /\ op' = "a *= b"
                /\ ret' = NoReturn
                /\ old' = reg["a"]
                /\ UNCHANGED <<reg, src>>
           ELSE Mutate("a *= b", product.value, product.value)

PreInc ==
    LET self == operatorPreInc(reg["a"])
    IN  Mutate("++a", self, self)

PreDec ==
    LET self == operatorPreDec(reg["a"])
    IN  Mutate("--a", self, self)

PostInc ==
    LET done == operatorPostInc(reg["a"])
    IN  Mutate("a++", done.self, done.result)

PostDec ==
    LET done == operatorPostDec(reg["a"])
    IN  Mutate("a--", done.self, done.result)

\* a = -a: operator-() and the implicit copy assignment
NegateAssign ==
    LET self == operatorNegate(reg["a"])
    IN  Mutate("a = -a", self, self)

---------------------------------------------------------------------------
(* Specifications *)

Compare == Equal \/ NotEqual \/ Less \/ Greater \/ LessEq \/ GreaterEq

Arithmetic == Plus \/ Minus \/ Times \/ Negate \/ PlusNegated

Assignments ==
    \/ PlusAssign \/ MinusAssign \/ TimesAssign \/ NegateAssign
    \/ PreInc \/ PreDec \/ PostInc \/ PostDec

\* two operands declared by BigInt() or BigInt(string), and every operator
Next ==
    \/ Compare
    \/ Arithmetic
    \/ Assignments
    \/ Output("a")

Spec == InitOperands /\ [][Next]_vars

\* the string constructor, and operator<< on what it built
NextStr ==
    \/ \E str \in CtorStrings : FromString("b", str)
    \/ Output("b")

SpecStr == Init /\ [][NextStr]_vars

\* BigInt(n) against BigInt("n"): the integer constructor, the string
\* constructor on decimal literals, and operator==
NextInt ==
    \/ Default("a")
    \/ \E integer \in Int64 : FromInt("a", integer)
    \/ \E integer \in Int64 : FromString("b", Literal(integer))
    \/ Equal

SpecInt == Init /\ [][NextInt]_vars

---------------------------------------------------------------------------
(* Vocabulary of the properties *)

\* the digit sequence is non-empty, every digit is in 0..9, the most
\* significant digit is nonzero unless it is the only one, zero has no sign
Canonical(x) ==
    /\ Len(x.number) >= 1
    /\ \A i \in 1..Len(x.number) : x.number[i] \in 0..9
    /\ Len(x.number) > 1 => x.number[Len(x.number)] # 0
    /\ x.number = <<0>> => ~x.isNegative

RECURSIVE Magnitude(_)
Magnitude(num) ==
    IF num = <<>> THEN 0 ELSE num[1] + 10 * Magnitude(Tail(num))

\* the integer a BigInt denotes
Value(x) == IF x.isNegative THEN -Magnitude(x.number) ELSE Magnitude(x.number)

\* the digits of a string after one optional leading '-'
DigitPart(str) == IF str # <<>> /\ str[1] = "-" THEN Tail(str) ELSE str

\* the grammar '-'? digit+
MatchesGrammar(str) ==
    /\ DigitPart(str) # <<>>
    /\ \A i \in 1..Len(DigitPart(str)) : DigitPart(str)[i] \in DigitChars

\* no zero digit in front of another digit
NoLeadingZeros(str) ==
    Len(DigitPart(str)) > 1 => DigitPart(str)[1] # "0"

\* the operators that return a BigInt
BigIntOps == {"a + b", "a - b", "a * b", "-a", "a + (-a)", "a += b", "a -= b",
              "a *= b", "a = -a", "++a", "--a", "a++", "a--"}

ReturnsBigInt == ret.kind = "value" /\ op \in BigIntOps

NegativeZero == BigInt(<<0>>, TRUE)

---------------------------------------------------------------------------
(* Properties *)

\* C1: every BigInt obtained from BigInt() or a valid decimal string, and
\* every value the public operators produce from such values, is canonical:
\* digits non-empty and in 0..9, no leading zero, zero not negative.
C1_CanonicalForm ==
    /\ \A r \in Objects : Canonical(reg[r])
    /\ ReturnsBigInt => Canonical(ret.val)

\* C2: for x built from a valid decimal string, x + (-x) == BigInt().
C2_AdditiveInverse ==
    (op = "a + (-a)" /\ src["a"].kind = "string")
        => operatorEq(ret.val, BigIntDefault)

\* C3: for a and b built from valid decimal strings, a + b == b + a.
C3_AdditionCommutes ==
    (op = "a + b" /\ src["a"].kind = "string" /\ src["b"].kind = "string")
        => operatorEq(ret.val, operatorPlus(reg["b"], reg["a"]))

\* C4: the string constructor throws std::invalid_argument exactly when its
\* argument does not match '-'? digit+, and builds an object otherwise.
C4_InvalidFormat ==
    op = "BigInt(string)" =>
        /\ (ret = Thrown) <=> ~MatchesGrammar(src["b"].arg)
        /\ Exists("b") <=> MatchesGrammar(src["b"].arg)

\* a second '-' after the sign is rejected
C4_Witness ==
    /\ op = "BigInt(string)"
    /\ src["b"] = ByString(<<"-", "-", "9">>)
    /\ ret = Thrown
    /\ ~Exists("b")

\* C5: BigInt(n) has every digit in 0..9 and compares equal to the BigInt
\* built from the decimal literal of n, for every n including the minimum.
C5_FromInteger ==
    src["a"].kind = "int" =>
        /\ Exists("a")
        /\ \A i \in 1..Len(reg["a"].number) : reg["a"].number[i] \in 0..9
        /\ (op = "a == b" /\ src["b"] = ByString(Literal(src["a"].arg)))
               => ret.val = TRUE

\* C6, as claimed: for every string s matching '-'? digit+ with no leading
\* zeros, writing BigInt(s) to a stream yields exactly s.
C6_RoundTrip ==
    (/\ op = "out << b"
     /\ src["b"].kind = "string"
     /\ MatchesGrammar(src["b"].arg)
     /\ NoLeadingZeros(src["b"].arg))
        => ret.val = src["b"].arg

\* C6, amended: for every string s matching '-'? digit+ with no leading
\* zeros, other than "-0", writing BigInt(s) to a stream yields exactly s.
C6_RoundTripAmended ==
    (/\ op = "out << b"
     /\ src["b"].kind = "string"
     /\ MatchesGrammar(src["b"].arg)
     /\ NoLeadingZeros(src["b"].arg)
     /\ src["b"].arg # <<"-", "0">>)
        => ret.val = src["b"].arg

\* a negative number ending in zero goes round
C6_Witness ==
    /\ op = "out << b"
    /\ src["b"] = ByString(<<"-", "9", "0">>)
    /\ ret.val = <<"-", "9", "0">>

\* C7: what operator<< writes always matches '-'? digit+ with no leading
\* zeros, and a value of magnitude zero is written as "0", without a sign.
C7_CanonicalOutput ==
    op = "out << a" =>
        /\ MatchesGrammar(ret.val)
        /\ NoLeadingZeros(ret.val)
        /\ Magnitude(reg["a"].number) = 0 => ret.val = <<"0">>

\* C8: ++x followed by --x leaves x equal to what it was; x++ and x-- return
\* a value equal to x before the step, and x changes by exactly one.
C8_IncDecInverse ==
    [][/\ (op = "++a" /\ op' = "--a") => operatorEq(reg'["a"], old)
       /\ op' = "a++" => /\ operatorEq(ret'.val, reg["a"])
                         /\ Value(reg'["a"]) = Value(reg["a"]) + 1
       /\ op' = "a--" => /\ operatorEq(ret'.val, reg["a"])
                         /\ Value(reg'["a"]) = Value(reg["a"]) - 1]_vars

\* exactly one of x < y, x == y, x > y; <= negates >, >= negates <
Trichotomy(x, y) ==
    /\ Cardinality({k \in 1..3 : CASE k = 1 -> operatorLt(x, y)
                                   [] k = 2 -> operatorEq(x, y)
                                   [] k = 3 -> operatorGt(x, y)}) = 1
    /\ operatorLe(x, y) <=> ~operatorGt(x, y)
    /\ operatorGe(x, y) <=> ~operatorLt(x, y)

\* C9: for all reachable BigInt values x and y exactly one of x < y, x == y,
\* x > y holds, x <= y is the negation of x > y and x >= y that of x < y.
C9_OrderingTotal ==
    /\ \A r \in Objects, s \in Objects : Trichotomy(reg[r], reg[s])
    /\ op = "a < b"  => ret.val = (~operatorEq(reg["a"], reg["b"])
                                   /\ ~operatorGt(reg["a"], reg["b"]))
    /\ op = "a == b" => ret.val = (~operatorLt(reg["a"], reg["b"])
                                   /\ ~operatorGt(reg["a"], reg["b"]))

\* the negative zero that a += b leaves is less than zero, and nothing else
C9_Witness ==
    /\ reg["a"] = NegativeZero
    /\ reg["b"] = BigIntDefault
    /\ op = "a < b"
    /\ ret.val = TRUE

\* C10: for canonical a and b, a * b never indexes the digit buffer at or
\* past its end, and returns the canonical representation of the exact
\* product, negative iff the signs differ and neither operand is zero.
C10_Multiplication ==
    (op = "a * b" /\ Canonical(reg["a"]) /\ Canonical(reg["b"])) =>
        /\ ~ub
        /\ ret.kind = "value"
        /\ Canonical(ret.val)
        /\ Value(ret.val) = Value(reg["a"]) * Value(reg["b"])
        /\ ret.val.isNegative <=>
               (/\ reg["a"].isNegative # reg["b"].isNegative
                /\ Value(reg["a"]) # 0
                /\ Value(reg["b"]) # 0)

\* 99 * -99 = -9801 fills the whole buffer
C10_Witness ==
    /\ op = "a * b"
    /\ reg["a"] = BigInt(<<9, 9>>, FALSE)
    /\ reg["b"] = BigInt(<<9, 9>>, TRUE)
    /\ ret = Returned(BigInt(<<1, 0, 8, 9>>, TRUE))

=============================================================================
